---- MODULE Spec2Model ----
(***************************************************************************)
(* Model of pkg/k8shandler/nodehelpers.go of the elasticsearch-operator:   *)
(* the resolution of an elasticsearchNode descriptor into a container      *)
(* descriptor (getESContainer), a volume list (getVolumes) and an affinity *)
(* fragment (getAffinity), together with the persistent volume claim store *)
(* that generatePersistentStorage writes through                           *)
(* createOrUpdatePersistentVolumeClaim.                                    *)
(*                                                                         *)
(* Optional (pointer) values are sequences of length 0 (nil) or 1.         *)
(* Quantity texts are pairs <<number, suffix>> ("4Gi" is <<4, "Gi">>).     *)
(* A Quantity is [val, Format]; val counts milli-units for DecimalSI and   *)
(* Ki for BinarySI, which keeps 4Gi inside 32-bit integers.  Quantities    *)
(* finer than one milli-unit or one Ki, and the DecimalExponent format,    *)
(* are outside the model.                                                  *)
(*                                                                         *)
(* GetVolumes is one step: the call of createOrUpdatePersistentVolumeClaim *)
(* is the only place where a resolution touches state shared with other    *)
(* nodes, so steps of other nodes interleave before and after it.          *)
(***************************************************************************)
EXTENDS Integers, Sequences, FiniteSets, TLC

VARIABLES nodes, cfg, store, calls, containers, volumes, affinities

vars == <<nodes, cfg, store, calls, containers, volumes, affinities>>

\* ------------------------------------------------------------------ bounds
\* Largest number of times one operation is invoked on one node.
MaxCalls == 2

Nodes == {"n1", "n2"}

Nil == <<>>
Some(v) == <<v>>

\* --------------------------------------------------------------- constants
elasticsearchCertsPath == "/etc/elasticsearch/secret"
elasticsearchConfigPath == "/usr/share/java/elasticsearch/config"
elasticsearchDefaultImage == "docker.io/t0ffel/elasticsearch5"
defaultMasterCPULimit == <<100, "m">>
defaultMasterCPURequest == <<100, "m">>
defaultCPULimit == <<4000, "m">>
defaultCPURequest == <<100, "m">>
defaultMemoryLimit == <<4, "Gi">>
defaultMemoryRequest == <<1, "Gi">>
heapDumpLocation == "/elasticsearch/persistent/heapdump.hprof"
promUser == "prometheus"

\* ------------------------------------------------- resource.Quantity (k8s)
DecSuffixes == <<"m", "", "k", "M">>
BinSuffixes == <<"Ki", "Mi", "Gi", "Ti">>

RECURSIVE Pow(_, _)
Pow(b, n) == IF n = 0 THEN 1 ELSE b * Pow(b, n - 1)

SuffixIndex(sufs, s) == CHOOSE i \in 1..Len(sufs) : sufs[i] = s

IsBinSuffix(s) == \E i \in 1..Len(BinSuffixes) : BinSuffixes[i] = s

\* resource.ParseQuantity: the suffix decides the format and the multiplier.
ParseQuantity(t) ==
    IF IsBinSuffix(t[2])
    THEN [val |-> t[1] * Pow(1024, SuffixIndex(BinSuffixes, t[2]) - 1),
          Format |-> "BinarySI"]
    ELSE [val |-> t[1] * Pow(1000, SuffixIndex(DecSuffixes, t[2]) - 1),
          Format |-> "DecimalSI"]

RECURSIVE Canonicalize(_, _, _, _)
Canonicalize(v, i, base, sufs) ==
    IF i < Len(sufs) /\ v % base = 0
    THEN Canonicalize(v \div base, i + 1, base, sufs)
    ELSE <<v, sufs[i]>>

\* Quantity.String: the canonical text, the largest suffix of the quantity's
\* format that leaves an integer mantissa; zero prints as "0".
QuantityString(q) ==
    IF q.val = 0 THEN <<0, "">>
    ELSE IF q.Format = "BinarySI"
         THEN Canonicalize(q.val, 1, 1024, BinSuffixes)
         ELSE Canonicalize(q.val, 1, 1000, DecSuffixes)

IsZero(q) == q.val = 0

\* ResourceList.Cpu / ResourceList.Memory: the entry, or a zero Quantity.
Cpu(rl) == IF "cpu" \in DOMAIN rl THEN rl["cpu"]
           ELSE [val |-> 0, Format |-> "DecimalSI"]

Memory(rl) == IF "memory" \in DOMAIN rl THEN rl["memory"]
              ELSE [val |-> 0, Format |-> "BinarySI"]

\* ------------------------------------------------------------ pure helpers
getReadinessProbe ==
    [TimeoutSeconds |-> 30, InitialDelaySeconds |-> 10, FailureThreshold |-> 15,
     Handler |-> [TCPSocket |-> Some([Port |-> 9300])]]

getAffinity(c) ==
    [PodAntiAffinity |-> Some(
       [PreferredDuringSchedulingIgnoredDuringExecution |-> <<
          [Weight |-> 100,
           PodAffinityTerm |->
             [LabelSelector |-> Some([MatchExpressions |-> <<
                 [Key |-> "role", Operator |-> "In", Values |-> <<c.NodeType>>] >>]),
              TopologyKey |-> "kubernetes.io/hostname"]] >>])]

isNodeMaster(c) == IF c.NodeType = "master" THEN "true" ELSE "false"

isNodeData(c) == IF c.NodeType = "data" THEN "true" ELSE "false"

getInstanceRAM(c) ==
    LET memory == Memory(c.ESNodeSpec.Resources.Limits)
    IN  IF ~IsZero(memory) THEN QuantityString(memory) ELSE defaultMemoryLimit

EnvValue(name, value) == [Name |-> name, Value |-> value, ValueFrom |-> Nil]

getEnvVars(c) == <<
    EnvValue("DC_NAME", c.DeployName),
    [Name |-> "NAMESPACE", Value |-> "",
     ValueFrom |-> Some([FieldRef |-> [FieldPath |-> "metadata.namespace"]])],
    EnvValue("KUBERNETES_TRUST_CERT", "true"),
    EnvValue("SERVICE_DNS", c.ClusterName \o "-cluster"),
    EnvValue("CLUSTER_NAME", c.ClusterName),
    [Name |-> "INSTANCE_RAM", Value |-> getInstanceRAM(c), ValueFrom |-> Nil],
    EnvValue("HEAP_DUMP_LOCATION", heapDumpLocation),
    EnvValue("NODE_QUORUM", "1"),
    EnvValue("RECOVER_EXPECTED_NODES", "1"),
    EnvValue("RECOVER_AFTER_TIME", "5m"),
    EnvValue("READINESS_PROBE_TIMEOUT", "30"),
    EnvValue("POD_LABEL", "cluster=" \o c.ClusterName),
    EnvValue("IS_MASTER", isNodeMaster(c)),
    EnvValue("HAS_DATA", isNodeData(c)),
    EnvValue("PROMETHEUS_USER", promUser),
    EnvValue("PRIMARY_SHARDS", "1"),
    EnvValue("REPLICA_SHARDS", "0") >>

\* Faulty variant: the memory limit is resolved on its own, as the other three fields
\* are, and falls back to the request default.
getResourceRequirements_ownMemory(c) ==
    LET inLimitCPU == Cpu(c.ESNodeSpec.Resources.Limits)
        inLimitMem == Memory(c.ESNodeSpec.Resources.Limits)
        inRequestCPU == Cpu(c.ESNodeSpec.Resources.Requests)
        inRequestMem == Memory(c.ESNodeSpec.Resources.Requests)
    IN  [Limits |->
           [cpu |-> IF IsZero(inLimitCPU) THEN ParseQuantity(defaultCPULimit)
                    ELSE inLimitCPU,
            memory |-> IF IsZero(inLimitMem) THEN ParseQuantity(defaultMemoryRequest)
                       ELSE inLimitMem],
         Requests |->
           [cpu |-> IF IsZero(inRequestCPU) THEN ParseQuantity(defaultCPURequest)
                    ELSE inRequestCPU,
            memory |-> IF IsZero(inRequestMem) THEN ParseQuantity(defaultMemoryRequest)
                       ELSE inRequestMem]]

\* Faulty variant: a master node falls back to the master CPU defaults.
getResourceRequirements_masterDefaults(c) ==
    LET master == c.NodeType = "master"
        inLimitCPU == Cpu(c.ESNodeSpec.Resources.Limits)
        inRequestCPU == Cpu(c.ESNodeSpec.Resources.Requests)
        inRequestMem == Memory(c.ESNodeSpec.Resources.Requests)
    IN  [Limits |->
           [cpu |-> IF IsZero(inLimitCPU)
                    THEN ParseQuantity(IF master THEN defaultMasterCPULimit
                                       ELSE defaultCPULimit)
                    ELSE inLimitCPU,
            memory |-> ParseQuantity(getInstanceRAM(c))],
         Requests |->
           [cpu |-> IF IsZero(inRequestCPU)
                    THEN ParseQuantity(IF master THEN defaultMasterCPURequest
                                       ELSE defaultCPURequest)
                    ELSE inRequestCPU,
            memory |-> IF IsZero(inRequestMem) THEN ParseQuantity(defaultMemoryRequest)
                       ELSE inRequestMem]]

getResourceRequirements(c) ==
    LET inLimitCPU == Cpu(c.ESNodeSpec.Resources.Limits)
        limitCPU == IF IsZero(inLimitCPU) THEN ParseQuantity(defaultCPULimit)
                    ELSE inLimitCPU
        limitMem == ParseQuantity(getInstanceRAM(c))
        inRequestCPU == Cpu(c.ESNodeSpec.Resources.Requests)
        requestCPU == IF IsZero(inRequestCPU) THEN ParseQuantity(defaultCPURequest)
                      ELSE inRequestCPU
        inRequestMem == Memory(c.ESNodeSpec.Resources.Requests)
        requestMem == IF IsZero(inRequestMem) THEN ParseQuantity(defaultMemoryRequest)
                      ELSE inRequestMem
    IN  [Limits |-> [cpu |-> limitCPU, memory |-> limitMem],
         Requests |-> [cpu |-> requestCPU, memory |-> requestMem]]

\* Faulty variant: the credentials mount is appended whatever the security flag.
getVolumeMounts_always(c) ==
    << [Name |-> "elasticsearch-storage", MountPath |-> "/elasticsearch/persistent"],
       [Name |-> "elasticsearch-config", MountPath |-> elasticsearchConfigPath],
       [Name |-> "certificates", MountPath |-> elasticsearchCertsPath] >>

getVolumeMounts(c) ==
    LET mounts == <<
          [Name |-> "elasticsearch-storage", MountPath |-> "/elasticsearch/persistent"],
          [Name |-> "elasticsearch-config", MountPath |-> elasticsearchConfigPath] >>
    IN  IF c.ElasticsearchSecure.Enabled
        THEN Append(mounts, [Name |-> "certificates", MountPath |-> elasticsearchCertsPath])
        ELSE mounts

getESContainer(c) ==
    LET image == IF c.ESNodeSpec.Config.Image = "" THEN elasticsearchDefaultImage
                 ELSE c.ESNodeSpec.Config.Image
        probe == getReadinessProbe
    IN  [Name |-> "elasticsearch",
         Image |-> image,
         ImagePullPolicy |-> "Always",
         Env |-> getEnvVars(c),
         Ports |-> << [Name |-> "cluster", ContainerPort |-> 9300, Protocol |-> "TCP"],
                      [Name |-> "restapi", ContainerPort |-> 9200, Protocol |-> "TCP"] >>,
         ReadinessProbe |-> Some(probe),
         LivenessProbe |-> Some(probe),
         VolumeMounts |-> getVolumeMounts(c),
         Resources |-> getResourceRequirements(c)]

\* ----------------------------------------------------------------- volumes
EmptyVolumeSource ==
    [HostPath |-> Nil, EmptyDir |-> Nil, PersistentVolumeClaim |-> Nil,
     ConfigMap |-> Nil, Secret |-> Nil]

\* Faulty variant: an existing claim reference outranks the claim template.
generatePersistentStorage_claimFirst(c, err) ==
    LET specVol == c.ESNodeSpec.Storage
    IN  IF specVol.HostPath # Nil
        THEN [volSource |-> [EmptyVolumeSource EXCEPT !.HostPath = specVol.HostPath],
              calls |-> <<>>]
        ELSE IF specVol.EmptyDir # Nil
        THEN [volSource |-> [EmptyVolumeSource EXCEPT !.EmptyDir = specVol.EmptyDir],
              calls |-> <<>>]
        ELSE IF specVol.PersistentVolumeClaim # Nil
        THEN [volSource |-> [EmptyVolumeSource EXCEPT
                               !.PersistentVolumeClaim = specVol.PersistentVolumeClaim],
              calls |-> <<>>]
        ELSE IF specVol.VolumeClaimTemplate # Nil
        THEN LET claimName == specVol.VolumeClaimTemplate[1].Name \o "-" \o c.DeployName
             IN  [volSource |-> [EmptyVolumeSource EXCEPT
                                   !.PersistentVolumeClaim = Some([ClaimName |-> claimName])],
                  calls |-> << [Spec |-> specVol.VolumeClaimTemplate[1].Spec,
                                Name |-> claimName,
                                Namespace |-> c.Namespace] >>]
        ELSE [volSource |-> EmptyVolumeSource, calls |-> <<>>]

\* Faulty variant: the claim template is handled before the host path and the
\* ephemeral directory are looked at.
generatePersistentStorage_templateFirst(c, err) ==
    LET specVol == c.ESNodeSpec.Storage
        claimName == specVol.VolumeClaimTemplate[1].Name \o "-" \o c.DeployName
        upsert == IF specVol.VolumeClaimTemplate # Nil
                  THEN << [Spec |-> specVol.VolumeClaimTemplate[1].Spec,
                           Name |-> claimName, Namespace |-> c.Namespace] >>
                  ELSE <<>>
    IN  IF specVol.HostPath # Nil
        THEN [volSource |-> [EmptyVolumeSource EXCEPT !.HostPath = specVol.HostPath],
              calls |-> upsert]
        ELSE IF specVol.EmptyDir # Nil
        THEN [volSource |-> [EmptyVolumeSource EXCEPT !.EmptyDir = specVol.EmptyDir],
              calls |-> upsert]
        ELSE IF specVol.VolumeClaimTemplate # Nil
        THEN [volSource |-> [EmptyVolumeSource EXCEPT
                               !.PersistentVolumeClaim = Some([ClaimName |-> claimName])],
              calls |-> upsert]
        ELSE IF specVol.PersistentVolumeClaim # Nil
        THEN [volSource |-> [EmptyVolumeSource EXCEPT
                               !.PersistentVolumeClaim = specVol.PersistentVolumeClaim],
              calls |-> <<>>]
        ELSE [volSource |-> EmptyVolumeSource, calls |-> <<>>]

\* Faulty variant: the volume source is bound to the claim only when the upsert
\* returned no error.
generatePersistentStorage_bindOnSuccess(c, err) ==
    LET specVol == c.ESNodeSpec.Storage
    IN  IF specVol.HostPath # Nil
        THEN [volSource |-> [EmptyVolumeSource EXCEPT !.HostPath = specVol.HostPath],
              calls |-> <<>>]
        ELSE IF specVol.EmptyDir # Nil
        THEN [volSource |-> [EmptyVolumeSource EXCEPT !.EmptyDir = specVol.EmptyDir],
              calls |-> <<>>]
        ELSE IF specVol.VolumeClaimTemplate # Nil
        THEN LET claimName == specVol.VolumeClaimTemplate[1].Name \o "-" \o c.DeployName
             IN  [volSource |->
                    IF err = Nil
                    THEN [EmptyVolumeSource EXCEPT
                            !.PersistentVolumeClaim = Some([ClaimName |-> claimName])]
                    ELSE EmptyVolumeSource,
                  calls |-> << [Spec |-> specVol.VolumeClaimTemplate[1].Spec,
                                Name |-> claimName,
                                Namespace |-> c.Namespace] >>]
        ELSE IF specVol.PersistentVolumeClaim # Nil
        THEN [volSource |-> [EmptyVolumeSource EXCEPT
                               !.PersistentVolumeClaim = specVol.PersistentVolumeClaim],
              calls |-> <<>>]
        ELSE [volSource |-> EmptyVolumeSource, calls |-> <<>>]

\* Faulty variant: when the upsert fails the volume source falls back to the
\* existing claim reference of the storage spec.
generatePersistentStorage_fallback(c, err) ==
    LET specVol == c.ESNodeSpec.Storage
    IN  IF specVol.HostPath # Nil
        THEN [volSource |-> [EmptyVolumeSource EXCEPT !.HostPath = specVol.HostPath],
              calls |-> <<>>]
        ELSE IF specVol.EmptyDir # Nil
        THEN [volSource |-> [EmptyVolumeSource EXCEPT !.EmptyDir = specVol.EmptyDir],
              calls |-> <<>>]
        ELSE IF specVol.VolumeClaimTemplate # Nil
        THEN LET claimName == specVol.VolumeClaimTemplate[1].Name \o "-" \o c.DeployName
             IN  [volSource |-> [EmptyVolumeSource EXCEPT
                                   !.PersistentVolumeClaim =
                                      IF err = Nil THEN Some([ClaimName |-> claimName])
                                      ELSE specVol.PersistentVolumeClaim],
                  calls |-> << [Spec |-> specVol.VolumeClaimTemplate[1].Spec,
                                Name |-> claimName,
                                Namespace |-> c.Namespace] >>]
        ELSE IF specVol.PersistentVolumeClaim # Nil
        THEN [volSource |-> [EmptyVolumeSource EXCEPT
                               !.PersistentVolumeClaim = specVol.PersistentVolumeClaim],
              calls |-> <<>>]
        ELSE [volSource |-> EmptyVolumeSource, calls |-> <<>>]

\* generatePersistentStorage: the volume source it returns and the calls of
\* createOrUpdatePersistentVolumeClaim it makes; err is what such a call
\* returns (Nil for success), which the code only logs.
generatePersistentStorage(c, err) ==
    LET specVol == c.ESNodeSpec.Storage
    IN  IF specVol.HostPath # Nil
        THEN [volSource |-> [EmptyVolumeSource EXCEPT !.HostPath = specVol.HostPath],
              calls |-> <<>>]
        ELSE IF specVol.EmptyDir # Nil
        THEN [volSource |-> [EmptyVolumeSource EXCEPT !.EmptyDir = specVol.EmptyDir],
              calls |-> <<>>]
        ELSE IF specVol.VolumeClaimTemplate # Nil
        THEN LET claimName == specVol.VolumeClaimTemplate[1].Name \o "-" \o c.DeployName
             IN  [volSource |-> [EmptyVolumeSource EXCEPT
                                   !.PersistentVolumeClaim = Some([ClaimName |-> claimName])],
                  calls |-> << [Spec |-> specVol.VolumeClaimTemplate[1].Spec,
                                Name |-> claimName,
                                Namespace |-> c.Namespace] >>]
        ELSE IF specVol.PersistentVolumeClaim # Nil
        THEN [volSource |-> [EmptyVolumeSource EXCEPT
                               !.PersistentVolumeClaim = specVol.PersistentVolumeClaim],
              calls |-> <<>>]
        ELSE [volSource |-> EmptyVolumeSource, calls |-> <<>>]

\* Faulty variant: a failed upsert aborts the resolution and no volume is returned.
getVolumes_abortOnError(c, err) ==
    IF err # Nil THEN <<>>
    ELSE << [Name |-> "elasticsearch-storage",
             VolumeSource |-> generatePersistentStorage(c, err).volSource],
            [Name |-> "elasticsearch-config",
             VolumeSource |-> [EmptyVolumeSource EXCEPT
                                 !.ConfigMap = Some([Name |-> c.ClusterName])]] >>
         \o (IF c.ElasticsearchSecure.Enabled
             THEN << [Name |-> "certificates",
                      VolumeSource |-> [EmptyVolumeSource EXCEPT
                         !.Secret = Some([SecretName |-> c.ClusterName \o "-certs"])]] >>
             ELSE <<>>)

\* Faulty variant: under the security flag the credentials volume takes the place of
\* the configuration volume instead of being appended.
getVolumes_overwrite(c, err) ==
    << [Name |-> "elasticsearch-storage",
        VolumeSource |-> generatePersistentStorage(c, err).volSource],
       IF c.ElasticsearchSecure.Enabled
       THEN [Name |-> "certificates",
             VolumeSource |-> [EmptyVolumeSource EXCEPT
                !.Secret = Some([SecretName |-> c.ClusterName \o "-certs"])]]
       ELSE [Name |-> "elasticsearch-config",
             VolumeSource |-> [EmptyVolumeSource EXCEPT
                                 !.ConfigMap = Some([Name |-> c.ClusterName])]] >>

getVolumes(c, err) ==
    LET vols == <<
          [Name |-> "elasticsearch-storage",
           VolumeSource |-> generatePersistentStorage(c, err).volSource],
          [Name |-> "elasticsearch-config",
           VolumeSource |-> [EmptyVolumeSource EXCEPT
                               !.ConfigMap = Some([Name |-> c.ClusterName])]] >>
    IN  IF c.ElasticsearchSecure.Enabled
        THEN LET secretName == c.ClusterName \o "-certs"
             IN  Append(vols, [Name |-> "certificates",
                               VolumeSource |-> [EmptyVolumeSource EXCEPT
                                  !.Secret = Some([SecretName |-> secretName])]])
        ELSE vols

\* ------------------------------------------------------------- claim store
\* The store holds one claim per (namespace, name).
Claim(call) == [Namespace |-> call.Namespace, Name |-> call.Name, Spec |-> call.Spec]

\* createOrUpdatePersistentVolumeClaim: on success the claim of that name in
\* that namespace has the desired spec; on an error the store is as before.
createOrUpdatePersistentVolumeClaim(st, call, err) ==
    IF err = Nil
    THEN {k \in st : ~(k.Namespace = call.Namespace /\ k.Name = call.Name)}
           \cup {Claim(call)}
    ELSE st

RECURSIVE ApplyCalls(_, _, _)
ApplyCalls(st, cs, err) ==
    IF cs = <<>> THEN st
    ELSE ApplyCalls(createOrUpdatePersistentVolumeClaim(st, Head(cs), err), Tail(cs), err)

\* What a create-or-update may return: a repeated call whose desired claim is
\* already stored returns no error; any other call may fail.
UpsertResults(st, cs) ==
    IF \A i \in 1..Len(cs) : Claim(cs[i]) \in st
    THEN {Nil}
    ELSE {Nil, Some("upsert failed")}

\* ------------------------------------------------------------------ inputs
Quantity(n, suffix) == ParseQuantity(<<n, suffix>>)

ResourceList(cpu, memory) ==
    [k \in (IF cpu = Nil THEN {} ELSE {"cpu"}) \cup
           (IF memory = Nil THEN {} ELSE {"memory"}) |->
        IF k = "cpu" THEN cpu[1] ELSE memory[1]]

ClaimSpec == [StorageClassName |-> "fast", Storage |-> Quantity(10, "Gi")]
OtherClaimSpec == [StorageClassName |-> "slow", Storage |-> Quantity(20, "Gi")]

HostPaths == {Nil, Some([Path |-> "/mnt/es"])}
EmptyDirs == {Nil, Some([Medium |-> ""])}
TemplateNames == {"data", "data-es"}
Templates == {Nil} \cup {Some([Name |-> t, Spec |-> ClaimSpec]) : t \in TemplateNames}
ClaimRefs == {Nil, Some([ClaimName |-> "existing-claim"])}
StorageSpecs ==
    [HostPath : HostPaths, EmptyDir : EmptyDirs,
     VolumeClaimTemplate : Templates, PersistentVolumeClaim : ClaimRefs]

NoStorage ==
    [HostPath |-> Nil, EmptyDir |-> Nil, VolumeClaimTemplate |-> Nil,
     PersistentVolumeClaim |-> Nil]
TemplateStorage(t, spec) ==
    [NoStorage EXCEPT !.VolumeClaimTemplate = Some([Name |-> t, Spec |-> spec])]

CpuLimits == {Nil, Some(Quantity(0, "")), Some(Quantity(500, "m")), Some(Quantity(2, ""))}
MemLimits == {Nil, Some([val |-> 0, Format |-> "BinarySI"]), Some(Quantity(8, "Gi")),
              Some(Quantity(1536, "Mi")), Some(Quantity(2, "k"))}
CpuRequests == {Nil, Some(Quantity(200, "m"))}
MemRequests == {Nil, Some(Quantity(0, "")), Some(Quantity(2, "Gi"))}

NodeTypes == {"master", "data", "client"}
Images == {"", "registry.local/es:5.6"}
DeployNames == {"es-node-1", "node-1"}

Node(deploy, role, secure, image, limits, requests, storage) ==
    [ClusterName |-> "es1", Namespace |-> "logging", DeployName |-> deploy,
     NodeType |-> role,
     ElasticsearchSecure |-> [Enabled |-> secure],
     ESNodeSpec |-> [Config |-> [Image |-> image],
                     Resources |-> [Limits |-> limits, Requests |-> requests],
                     Storage |-> storage]]

\* Every storage combination, on one node.
StorageNodes ==
    {Node(d, r, s, "", ResourceList(Nil, m), ResourceList(Nil, Nil), st) :
        d \in DeployNames, r \in {"master", "data"}, s \in BOOLEAN,
        m \in {Nil, Some(Quantity(8, "Gi"))}, st \in StorageSpecs}

\* Every resource combination, on one node.
ResourceNodes ==
    {Node("es-node-1", r[1], r[2], r[3], ResourceList(q[1], q[2]),
          ResourceList(q[3], q[4]), st) :
        r \in NodeTypes \X BOOLEAN \X Images,
        q \in CpuLimits \X MemLimits \X CpuRequests \X MemRequests,
        st \in {NoStorage, TemplateStorage("data", ClaimSpec)}}

\* The nodes resolved side by side: with and without the security flag, and
\* with claim templates that name the same claim with the same or another spec.
SiblingNode(secure, storage) ==
    Node("es-node-1", "data", secure, "", ResourceList(Nil, Nil), ResourceList(Nil, Nil),
         storage)

SiblingNodes ==
    {SiblingNode(TRUE, TemplateStorage("data", ClaimSpec)),
     SiblingNode(FALSE, TemplateStorage("data", ClaimSpec)),
     SiblingNode(FALSE, TemplateStorage("data", OtherClaimSpec)),
     SiblingNode(FALSE, NoStorage)}

\* ------------------------------------------------------------------- state
InitWith(ns, assignments) ==
    /\ nodes = ns
    /\ cfg \in assignments
    /\ store = {}
    /\ calls = <<>>
    /\ containers = [n \in ns |-> <<>>]
    /\ volumes = [n \in ns |-> <<>>]
    /\ affinities = [n \in ns |-> <<>>]

Init == InitWith({"n1"}, [{"n1"} -> StorageNodes])

InitResources == InitWith({"n1"}, [{"n1"} -> ResourceNodes])

\* A secured node with a claim template beside each kind of sibling.
InitSiblings ==
    InitWith(Nodes, {f \in [Nodes -> SiblingNodes] :
                       /\ f["n1"].ElasticsearchSecure.Enabled
                       /\ f["n1"].ESNodeSpec.Storage = TemplateStorage("data", ClaimSpec)})

GetESContainer(n) ==
    /\ Len(containers[n]) < MaxCalls
    /\ containers' = [containers EXCEPT ![n] = Append(@, getESContainer(cfg[n]))]
    /\ UNCHANGED <<nodes, cfg, store, calls, volumes, affinities>>

GetAffinity(n) ==
    /\ Len(affinities[n]) < MaxCalls
    /\ affinities' = [affinities EXCEPT ![n] = Append(@, getAffinity(cfg[n]))]
    /\ UNCHANGED <<nodes, cfg, store, calls, containers, volumes>>

GetVolumes(n) ==
    /\ Len(volumes[n]) < MaxCalls
    /\ \E err \in {Nil, Some("upsert failed")} :
         LET issued == generatePersistentStorage(cfg[n], err).calls
         IN  /\ err \in UpsertResults(store, issued)
             /\ store' = ApplyCalls(store, issued, err)
             /\ calls' = calls \o issued
             /\ volumes' = [volumes EXCEPT ![n] =
                   Append(@, [vols |-> getVolumes(cfg[n], err), err |-> err,
                              issued |-> issued, storeAfter |-> store'])]
    /\ UNCHANGED <<nodes, cfg, containers, affinities>>

Next ==
    \E n \in nodes : GetESContainer(n) \/ GetVolumes(n) \/ GetAffinity(n)

Spec == Init /\ [][Next]_vars

SpecResources == InitResources /\ [][Next]_vars

SpecSiblings == InitSiblings /\ [][Next]_vars

\* ------------------------------------------------------------ observations
NamesOf(list) == [i \in 1..Len(list) |-> list[i].Name]

Range(list) == {list[i] : i \in 1..Len(list)}

EnvValueOf(container, name) ==
    LET i == CHOOSE j \in 1..Len(container.Env) : container.Env[j].Name = name
    IN  container.Env[i].Value

Populated(volSource) == {f \in DOMAIN volSource : volSource[f] # Nil}

Precedence == <<"HostPath", "EmptyDir", "VolumeClaimTemplate", "PersistentVolumeClaim">>

PopulatedVariants(storage) == {i \in 1..Len(Precedence) : storage[Precedence[i]] # Nil}

\* The highest-precedence populated variant of a storage spec, "" when none is.
Selected(storage) ==
    IF PopulatedVariants(storage) = {} THEN ""
    ELSE Precedence[CHOOSE i \in PopulatedVariants(storage) :
                      \A j \in PopulatedVariants(storage) : i <= j]

StorageOf(n) == cfg[n].ESNodeSpec.Storage

Secure(n) == cfg[n].ElasticsearchSecure.Enabled

\* --------------------------------------------------------------------- C1
\* C1: the volume mounts of the container and the volumes of the same node
\* carry the same names in the same positions; both hold
\* elasticsearch-storage and elasticsearch-config, and both hold certificates
\* exactly when ElasticsearchSecure.Enabled is set.
C1_MountsMatchVolumes ==
    \A n \in nodes : \A i \in 1..Len(containers[n]) : \A j \in 1..Len(volumes[n]) :
        LET m == NamesOf(containers[n][i].VolumeMounts)
            v == NamesOf(volumes[n][j].vols)
        IN  /\ m = v
            /\ Cardinality(Range(m)) = Len(m)
            /\ {"elasticsearch-storage", "elasticsearch-config"} \subseteq Range(m)
            /\ {"elasticsearch-storage", "elasticsearch-config"} \subseteq Range(v)
            /\ ("certificates" \in Range(m)) <=> Secure(n)
            /\ ("certificates" \in Range(v)) <=> Secure(n)

C1_Witness ==
    \E n \in nodes :
        /\ Len(containers[n]) > 0 /\ Len(volumes[n]) > 0
        /\ Secure(n)
        /\ Len(volumes[n][1].vols) = 3
        /\ Len(containers[n][1].VolumeMounts) = 3

\* --------------------------------------------------------------------- C2
\* C2: the text of the memory limit of the resource requirements equals the
\* value of the INSTANCE_RAM environment entry, and both are the text of the
\* input memory limit when that is non-zero and "4Gi" otherwise.
C2_InstanceRAMIsMemoryLimit ==
    \A n \in nodes : \A i \in 1..Len(containers[n]) :
        LET k == containers[n][i]
            input == Memory(cfg[n].ESNodeSpec.Resources.Limits)
        IN  /\ QuantityString(k.Resources.Limits.memory) = EnvValueOf(k, "INSTANCE_RAM")
            /\ EnvValueOf(k, "INSTANCE_RAM") =
                 IF input.val # 0 THEN QuantityString(input) ELSE <<4, "Gi">>

C2_Witness ==
    \E n \in nodes :
        /\ Len(containers[n]) > 0
        /\ Memory(cfg[n].ESNodeSpec.Resources.Limits) = Quantity(1536, "Mi")
        /\ EnvValueOf(containers[n][1], "INSTANCE_RAM") = <<1536, "Mi">>

\* --------------------------------------------------------------------- C3
\* C3: each of CPU limit, CPU request, memory limit and memory request is the
\* input quantity when that is non-zero and otherwise the default 4000m,
\* 100m, 4Gi, 1Gi, whatever the role and the other fields; a master with no
\* resources set gets exactly the four defaults.
Resolved(input, n, suffix) == IF input.val # 0 THEN input ELSE Quantity(n, suffix)

C3_FieldsResolvedIndependently ==
    \A n \in nodes : \A i \in 1..Len(containers[n]) :
        LET r == containers[n][i].Resources
            in == cfg[n].ESNodeSpec.Resources
        IN  /\ r.Limits.cpu = Resolved(Cpu(in.Limits), 4000, "m")
            /\ r.Requests.cpu = Resolved(Cpu(in.Requests), 100, "m")
            /\ r.Limits.memory = Resolved(Memory(in.Limits), 4, "Gi")
            /\ r.Requests.memory = Resolved(Memory(in.Requests), 1, "Gi")
            /\ DOMAIN in.Limits = {} /\ DOMAIN in.Requests = {} =>
                  /\ QuantityString(r.Limits.cpu) = <<4, "">>
                  /\ QuantityString(r.Requests.cpu) = <<100, "m">>
                  /\ QuantityString(r.Limits.memory) = <<4, "Gi">>
                  /\ QuantityString(r.Requests.memory) = <<1, "Gi">>

C3_Witness ==
    \E n \in nodes :
        /\ Len(containers[n]) > 0
        /\ cfg[n].NodeType = "master"
        /\ DOMAIN cfg[n].ESNodeSpec.Resources.Limits = {}
        /\ DOMAIN cfg[n].ESNodeSpec.Resources.Requests = {}

\* --------------------------------------------------------------------- C4
\* C4: when at least one storage variant is populated the volume source of
\* the storage volume has exactly one populated sub-field, that of the
\* highest-precedence populated variant (host path, then ephemeral directory,
\* then claim template, then existing claim reference).
C4_StoragePrecedence ==
    \A n \in nodes : \A i \in 1..Len(volumes[n]) :
        LET vs == volumes[n][i].vols[1].VolumeSource
            st == StorageOf(n)
            sel == Selected(st)
        IN  sel # "" =>
              /\ Cardinality(Populated(vs)) = 1
              /\ st.HostPath # Nil => vs.HostPath = st.HostPath
              /\ sel = "EmptyDir" => vs.EmptyDir = st.EmptyDir
              /\ sel = "VolumeClaimTemplate" =>
                   /\ vs.PersistentVolumeClaim # Nil
                   /\ vs.PersistentVolumeClaim # st.PersistentVolumeClaim
              /\ sel = "PersistentVolumeClaim" =>
                   vs.PersistentVolumeClaim = st.PersistentVolumeClaim

C4_Witness ==
    \E n \in nodes :
        /\ Len(volumes[n]) > 0
        /\ PopulatedVariants(StorageOf(n)) = 1..4
        /\ Populated(volumes[n][1].vols[1].VolumeSource) = {"HostPath"}

\* --------------------------------------------------------------------- C5
\* C5: when the claim template is the selected variant one resolution makes
\* exactly one create-or-update call, for the claim named
\* <templateName>-<deployName> in the node's namespace, and the volume source
\* references that claim name whether the call succeeded or failed.
C5_OneUpsertPerResolution ==
    \A n \in nodes : \A i \in 1..Len(volumes[n]) :
        LET e == volumes[n][i]
            t == StorageOf(n).VolumeClaimTemplate
        IN  Selected(StorageOf(n)) = "VolumeClaimTemplate" =>
              LET name == t[1].Name \o "-" \o cfg[n].DeployName
              IN  /\ Len(e.issued) = 1
                  /\ e.issued[1].Name = name
                  /\ e.issued[1].Namespace = cfg[n].Namespace
                  /\ e.issued[1].Spec = t[1].Spec
                  /\ e.vols[1].VolumeSource.PersistentVolumeClaim =
                       Some([ClaimName |-> name])
                  /\ (t[1].Name = "data" /\ cfg[n].DeployName = "es-node-1") =>
                       name = "data-es-node-1"

C5_Witness ==
    \E n \in nodes : \E i \in 1..Len(volumes[n]) :
        /\ Selected(StorageOf(n)) = "VolumeClaimTemplate"
        /\ volumes[n][i].err # Nil
        /\ volumes[n][i].issued[1].Name = "data-es-node-1"

\* --------------------------------------------------------------------- C6
SameOutputsTwice(n) ==
    /\ \A i \in 1..(Len(containers[n]) - 1) : containers[n][i + 1] = containers[n][i]
    /\ \A i \in 1..(Len(affinities[n]) - 1) : affinities[n][i + 1] = affinities[n][i]
    /\ \A i \in 1..(Len(volumes[n]) - 1) : volumes[n][i + 1].vols = volumes[n][i].vols

C7_ResolutionNeverAborts ==
    \A n \in nodes :
        /\ Len(volumes[n]) < MaxCalls => ENABLED GetVolumes(n)
        /\ \A i \in 1..Len(volumes[n]) :
              LET e == volumes[n][i]
              IN  /\ NamesOf(e.vols) =
                       IF Secure(n)
                       THEN <<"elasticsearch-storage", "elasticsearch-config", "certificates">>
                       ELSE <<"elasticsearch-storage", "elasticsearch-config">>
                  /\ Populated(e.vols[2].VolumeSource) = {"ConfigMap"}
                  /\ Secure(n) => Populated(e.vols[3].VolumeSource) = {"Secret"}
                  /\ Selected(StorageOf(n)) = "" =>
                        /\ Populated(e.vols[1].VolumeSource) = {}
                        /\ e.issued = <<>>
                  /\ Selected(StorageOf(n)) # "" =>
                        Populated(e.vols[1].VolumeSource) # {}

C7_Witness ==
    \E n \in nodes : \E i \in 1..Len(volumes[n]) :
        /\ volumes[n][i].err # Nil
        /\ Secure(n)
        /\ Len(volumes[n][i].vols) = 3

\* --------------------------------------------------------------------- C8
\* C8: a step changes the claim store or makes a create-or-update call only
\* if it resolves the volumes of a node whose selected storage variant is the
\* claim template; building a container descriptor or an affinity fragment,
\* and resolving the volumes of any other node, leave both as they are.
C8_StoreWrittenOnlyByTemplate ==
    [][ /\ (store' # store \/ calls' # calls) =>
             \E n \in nodes :
                /\ Len(volumes'[n]) = Len(volumes[n]) + 1
                /\ Selected(StorageOf(n)) = "VolumeClaimTemplate"
        /\ \A n \in nodes :
             (Len(volumes'[n]) = Len(volumes[n]) + 1
                /\ Selected(StorageOf(n)) # "VolumeClaimTemplate") =>
                    /\ store' = store /\ calls' = calls
                    /\ volumes'[n][Len(volumes'[n])].issued = <<>>
        /\ (containers' # containers \/ affinities' # affinities) =>
             (store' = store /\ calls' = calls) ]_vars

C8_Witness ==
    \E n \in nodes :
        /\ Len(volumes[n]) > 0 /\ Len(containers[n]) > 0 /\ Len(affinities[n]) > 0
        /\ StorageOf(n).VolumeClaimTemplate # Nil
        /\ Selected(StorageOf(n)) = "EmptyDir"
        /\ store = {} /\ calls = <<>>

\* --------------------------------------------------------------------- C9
WithoutCertificates(list) == SelectSeq(list, LAMBDA x : x.Name # "certificates")

Certificates(list) == SelectSeq(list, LAMBDA x : x.Name = "certificates")

DifferOnlyInSecurity(c, d) ==
    /\ c.ElasticsearchSecure.Enabled /\ ~d.ElasticsearchSecure.Enabled
    /\ [c EXCEPT !.ElasticsearchSecure.Enabled = FALSE] = d

\* C9: of two nodes whose descriptors differ only in the security flag, the
\* container descriptors agree in everything but the certificates mount, the
\* affinity fragments and the calls made agree, and the volume lists agree
\* in everything but the certificates volume; the node with the flag has the
\* certificates volume, on secret <clusterName>-certs, and the certificates
\* mount, and the other node has neither.
C9_SecurityFlagOnlyAddsCertificates ==
    \A n \in nodes : \A m \in nodes :
        DifferOnlyInSecurity(cfg[n], cfg[m]) =>
          /\ \A i \in 1..Len(containers[n]) : \A j \in 1..Len(containers[m]) :
               LET a == containers[n][i]
                   b == containers[m][j]
               IN  /\ [a EXCEPT !.VolumeMounts = <<>>] = [b EXCEPT !.VolumeMounts = <<>>]
                   /\ WithoutCertificates(a.VolumeMounts) = b.VolumeMounts
                   /\ Certificates(a.VolumeMounts) =
                        << [Name |-> "certificates",
                            MountPath |-> "/etc/elasticsearch/secret"] >>
          /\ \A i \in 1..Len(affinities[n]) : \A j \in 1..Len(affinities[m]) :
               affinities[n][i] = affinities[m][j]
          /\ \A i \in 1..Len(volumes[n]) : \A j \in 1..Len(volumes[m]) :
               LET a == volumes[n][i]
                   b == volumes[m][j]
               IN  /\ WithoutCertificates(a.vols) = b.vols
                   /\ a.issued = b.issued
                   /\ Certificates(a.vols) =
                        << [Name |-> "certificates",
                            VolumeSource |-> [EmptyVolumeSource EXCEPT
                               !.Secret = Some([SecretName |-> "es1-certs"])]] >>

C9_Witness ==
    \E n \in nodes : \E m \in nodes :
        /\ DifferOnlyInSecurity(cfg[n], cfg[m])
        /\ Selected(StorageOf(n)) = "VolumeClaimTemplate"
        /\ Len(containers[n]) > 0 /\ Len(containers[m]) > 0
        /\ Len(volumes[n]) > 0 /\ Len(volumes[m]) > 0
        /\ Len(affinities[n]) > 0 /\ Len(affinities[m]) > 0
        /\ volumes[n][1].err # volumes[m][1].err

\* -------------------------------------------------------------------- C10
\* C10: whatever the interleaving of the nodes' steps and whatever the calls
\* to the claim store returned, what was resolved for a node is what was
\* resolved for any node of the same descriptor, at any time: the outputs
\* are decided by the descriptor alone.
C10_OutputsDependOnDescriptorOnly ==
    \A n \in nodes : \A m \in nodes :
        cfg[n] = cfg[m] =>
          /\ \A i \in 1..Len(containers[n]) : \A j \in 1..Len(containers[m]) :
               containers[n][i] = containers[m][j]
          /\ \A i \in 1..Len(volumes[n]) : \A j \in 1..Len(volumes[m]) :
               volumes[n][i].vols = volumes[m][j].vols
          /\ \A i \in 1..Len(affinities[n]) : \A j \in 1..Len(affinities[m]) :
               affinities[n][i] = affinities[m][j]

C10_Witness ==
    \E n \in nodes : \E m \in nodes :
        /\ n # m
        /\ Selected(StorageOf(n)) = "VolumeClaimTemplate"
        /\ Selected(StorageOf(m)) = "VolumeClaimTemplate"
        /\ StorageOf(n) # StorageOf(m)
        /\ Len(volumes[n]) >= 2 /\ Len(volumes[m]) >= 1
        /\ Len(containers[n]) > 0 /\ Len(containers[m]) > 0
        /\ volumes[n][1].err # Nil
        /\ volumes[n][2].err = Nil
        /\ volumes[m][1].storeAfter # volumes[n][2].storeAfter

====
